---- MODULE Spec2Model ----
(***************************************************************************)
(* Model of neurokit2/rsp/rsp_analyze.py: rsp_analyze(), the dispatcher    *)
(* that routes respiration data to rsp_eventrelated() or                   *)
(* rsp_intervalrelated().                                                  *)
(*                                                                         *)
(* Strings that the code inspects (the method designator, column names)   *)
(* are sequences of ASCII code points, so that str.lower() and the         *)
(* substring test `"Label" in name` are computed, not assumed.             *)
(*                                                                         *)
(* A DataFrame is abstracted to what rsp_analyze reads of it: its set of   *)
(* column names, its row count (len) and, when it has a "Label" column,    *)
(* the dtype of that column and how many rows carry each label value.      *)
(* A dict of epochs is the sequence of its values in iteration             *)
(* (insertion) order.                                                      *)
(***************************************************************************)
EXTENDS Integers, Sequences, FiniteSets

VARIABLES
    data,           \* argument `data`
    sampling_rate,  \* argument `sampling_rate`
    method_arg,     \* argument `method`, as passed by the caller
    subepoch_rate,  \* argument `subepoch_rate`
    method,         \* local `method` after line 69
    colnames,       \* local `colnames` when the call ended
    duration,       \* local `duration` when the call ended
    features,       \* local `features` when the call ended
    calls,          \* collaborator invocations made by the call, in order
    outcome         \* how the call ended

vars == <<data, sampling_rate, method_arg, subepoch_rate, method, colnames,
          duration, features, calls, outcome>>

----------------------------------------------------------------------------
(* Bounds of the model *)

\* sampling rates are 1..MaxRate
MaxRate == 2
\* a dict holds 0..MaxEpochs epochs
MaxEpochs == 2
\* a "Label" column holds label values 0..MaxLabel
MaxLabel == 1

\* the 10 s that separates event-related from interval-related data
DurationThreshold == 10

----------------------------------------------------------------------------
(* Strings *)

str_Label == <<76, 97, 98, 101, 108>>
str_RSP_Rate == <<82, 83, 80, 95, 82, 97, 116, 101>>
str_Event_Label == <<69, 118, 101, 110, 116, 95, 76, 97, 98, 101, 108>>

str_event_related == <<101, 118, 101, 110, 116, 45, 114, 101, 108, 97, 116, 101, 100>>
str_event == <<101, 118, 101, 110, 116>>
str_epoch == <<101, 112, 111, 99, 104>>
str_interval_related ==
    <<105, 110, 116, 101, 114, 118, 97, 108, 45, 114, 101, 108, 97, 116, 101, 100>>
str_interval == <<105, 110, 116, 101, 114, 118, 97, 108>>
str_resting_state ==
    <<114, 101, 115, 116, 105, 110, 103, 45, 115, 116, 97, 116, 101>>
str_auto == <<97, 117, 116, 111>>
\* "events": one letter away from a synonym, and recognised by no branch
str_events == <<101, 118, 101, 110, 116, 115>>

IsUpper(c) == c \in 65..90
IsLower(c) == c \in 97..122

\* str.lower() on ASCII text
lower_identity(s) == s
lower(s) == [i \in 1..Len(s) |-> IF IsUpper(s[i]) THEN s[i] + 32 ELSE s[i]]

\* `sub in s` for two strings
Contains(sub, s) ==
    \E k \in 0..(Len(s) - Len(sub)) : \A j \in 1..Len(sub) : s[k + j] = sub[j]

----------------------------------------------------------------------------
(* Input data *)

\* Row counts: none, and one short of and exactly DurationThreshold seconds
\* at each sampling rate.
RowCounts ==
    {0} \cup UNION {{DurationThreshold * r - 1, DurationThreshold * r} : r \in 1..MaxRate}

SamplingRates == 1..MaxRate

LabelKeys == 0..MaxLabel

\* The "Label" column of a table that has none.
NoLabel == [dtype |-> "none", counts |-> [k \in LabelKeys |-> 0]]

RECURSIVE SumCounts(_, _)
SumCounts(counts, keys) ==
    IF keys = {} THEN 0
    ELSE LET k == CHOOSE x \in keys : TRUE
         IN counts[k] + SumCounts(counts, keys \ {k})

\* A "Label" column: dtype int64 holds the integers of LabelKeys; dtype
\* object holds strings, key k standing for the string str(k), as
\* epochs_create() labels its epochs.
LabelColumns ==
    [dtype : {"int64", "object"}, counts : [LabelKeys -> RowCounts]]

DataFrame(columns, nrows, Label) ==
    [type |-> "DataFrame", columns |-> columns, nrows |-> nrows, Label |-> Label]

\* Tables of one continuous recording: no "Label" column; str_Event_Label
\* is a column whose name merely contains "Label".
UnlabeledFrames ==
    {DataFrame(c, n, NoLabel) :
        c \in {{str_RSP_Rate}, {str_RSP_Rate, str_Event_Label}}, n \in RowCounts}

\* Tables of concatenated epochs, as epochs_to_df() builds them.
LabeledFrames ==
    {DataFrame({str_RSP_Rate, str_Label}, SumCounts(l.counts, LabelKeys), l) :
        l \in LabelColumns}

\* The table of one epoch: every row carries the epoch's own label.
EpochLabel(n) == [dtype |-> "object", counts |-> [k \in LabelKeys |-> IF k = 0 THEN n ELSE 0]]

\* An epoch holds at least one sample.
EpochFrames ==
    {DataFrame({str_RSP_Rate, str_Label}, n, EpochLabel(n)) : n \in RowCounts \ {0}}
    \cup {DataFrame({str_RSP_Rate}, n, NoLabel) : n \in RowCounts \ {0}}

SeqsUpTo(S, n) == UNION {[1..k -> S] : k \in 0..n}

Dicts == {[type |-> "dict", epochs |-> e] : e \in SeqsUpTo(EpochFrames, MaxEpochs)}

Inputs == UnlabeledFrames \cup LabeledFrames \cup Dicts

\* subepoch_rate is forwarded and never inspected: [None, None] and [1, 3].
SubepochRates == {<<"None", "None">>, <<"1", "3">>}

upper(s) == [i \in 1..Len(s) |-> IF IsLower(s[i]) THEN s[i] - 32 ELSE s[i]]
\* Capitals at the start and after a hyphen: "Event-Related".
title(s) ==
    [i \in 1..Len(s) |->
        IF IsLower(s[i]) /\ (i = 1 \/ s[i - 1] = 45) THEN s[i] - 32 ELSE s[i]]

Synonyms ==
    {str_event_related, str_event, str_epoch, str_interval_related, str_interval,
     str_resting_state, str_auto}

Hyphenated == {str_event_related, str_interval_related, str_resting_state}

\* The recognised strings in lower case and in capitals, the hyphenated ones
\* capitalised, and two strings that no branch recognises.
Methods ==
    Synonyms \cup {upper(w) : w \in Synonyms} \cup {title(w) : w \in Hyphenated}
        \cup {str_events, <<>>}

----------------------------------------------------------------------------
(* Python values *)

isinstance_dict(d) == d.type = "dict"
isinstance_DataFrame(d) == d.type = "DataFrame"

\* len(df)
len(df) == df.nrows

\* A local that no statement has assigned yet.
UnboundSet == [bound |-> FALSE, v |-> {}]
BoundSet(v) == [bound |-> TRUE, v |-> v]

\* duration = n / sampling_rate, kept as the exact quotient num / den
UnboundDuration == [bound |-> FALSE, num |-> 0, den |-> 1]
Quotient(n, d) == [bound |-> TRUE, num |-> n, den |-> d]

\* The collaborators, known here by their call alone.
rsp_eventrelated(d, sub) ==
    [fn |-> "rsp_eventrelated", data |-> d, subepoch_rate |-> sub]
rsp_intervalrelated(d, sr) ==
    [fn |-> "rsp_intervalrelated", data |-> d, sampling_rate |-> sr]

\* The table a collaborator returns is identified by the call that produced
\* it: the collaborator, and the call's place among the calls made.
TableOf(c, k) == [producer |-> c.fn, call |-> k]
NoTable == [producer |-> "none", call |-> 0]
UnboundFeatures == [bound |-> FALSE, v |-> NoTable]
BoundFeatures(t) == [bound |-> TRUE, v |-> t]

\* How a call ends.
Returned == [kind |-> "return", exc |-> "none", detail |-> "none"]
Raised(exc, detail) == [kind |-> "raise", exc |-> exc, detail |-> detail]

WrongInputMessage ==
    "NeuroKit error: rsp_analyze(): Wrong input or method, we couldn't extract extract epochs features."

\* duration >= 10, for duration = num / den with den > 0
AtLeastThreshold_strict(d) == d.num > DurationThreshold * d.den
AtLeastThreshold(d) == d.num >= DurationThreshold * d.den

----------------------------------------------------------------------------
(* rsp_analyze *)

\* The locals and effects of a call when it ends.
Frame(m, cn, du, fe, ca, out) ==
    [method |-> m, colnames |-> cn, duration |-> du, features |-> fe,
     calls |-> ca, outcome |-> out]

\* for i in data: colnames = data[i].columns.values
RECURSIVE ColnamesLoop(_, _)
ColnamesLoop(epochs, cn) ==
    IF epochs = <<>> THEN cn
    ELSE ColnamesLoop(Tail(epochs), BoundSet(Head(epochs).columns))

\* The sanity check's column names: assigned by the loop for a dict, by the
\* table for a DataFrame.
SanityColnames_default(d) ==
    IF isinstance_dict(d) THEN ColnamesLoop(d.epochs, BoundSet({}))
    ELSE IF isinstance_DataFrame(d) THEN BoundSet(d.columns)
    ELSE UnboundSet
SanityColnames(d) ==
    IF isinstance_dict(d) THEN ColnamesLoop(d.epochs, UnboundSet)
    ELSE IF isinstance_DataFrame(d) THEN BoundSet(d.columns)
    ELSE UnboundSet

\* [i for i in colnames if "Label" in i]
LabelNames(cn) == {i \in cn : Contains(str_Label, i)}

\* Event-related analysis
EventRelatedBranch(m, d, sr, sub) ==
    LET cn == SanityColnames(d)
    IN IF ~cn.bound
       THEN Frame(m, cn, UnboundDuration, UnboundFeatures, <<>>,
                  Raised("UnboundLocalError", "colnames"))
       ELSE IF Cardinality(LabelNames(cn.v)) = 0
       THEN Frame(m, cn, UnboundDuration, UnboundFeatures, <<>>,
                  Raised("ValueError", WrongInputMessage))
       ELSE LET c == rsp_eventrelated(d, sub)
            IN Frame(m, cn, UnboundDuration, BoundFeatures(TableOf(c, 1)), <<c>>, Returned)

\* Interval-related analysis
IntervalRelatedBranch_checked(m, d, sr, sub) ==
    IF Cardinality(LabelNames(SanityColnames(d).v)) = 0
    THEN Frame(m, UnboundSet, UnboundDuration, UnboundFeatures, <<>>,
               Raised("ValueError", WrongInputMessage))
    ELSE LET c == rsp_intervalrelated(d, sr)
         IN Frame(m, UnboundSet, UnboundDuration, BoundFeatures(TableOf(c, 1)), <<c>>, Returned)
IntervalRelatedBranch(m, d, sr, sub) ==
    LET c == rsp_intervalrelated(d, sr)
    IN Frame(m, UnboundSet, UnboundDuration, BoundFeatures(TableOf(c, 1)), <<c>>, Returned)

\* if duration >= 10: features = rsp_intervalrelated(data, sampling_rate)
\* else: features = rsp_eventrelated(data, subepoch_rate=subepoch_rate)
ByDuration_validated(m, d, sr, sub, du) ==
    IF AtLeastThreshold(du)
    THEN LET c == rsp_intervalrelated(d, sr)
         IN Frame(m, UnboundSet, du, BoundFeatures(TableOf(c, 1)), <<c>>, Returned)
    ELSE LET r == EventRelatedBranch(m, d, sr, sub)
         IN Frame(m, r.colnames, du, r.features, r.calls, r.outcome)
ByDuration(m, d, sr, sub, du) ==
    LET c == IF AtLeastThreshold(du) THEN rsp_intervalrelated(d, sr)
             ELSE rsp_eventrelated(d, sub)
    IN Frame(m, UnboundSet, du, BoundFeatures(TableOf(c, 1)), <<c>>, Returned)

\* for i in data: duration = len(data[i]) / sampling_rate
DurationLoop_first(epochs, sr, du) ==
    IF epochs = <<>> THEN du ELSE Quotient(len(Head(epochs)), sr)
RECURSIVE DurationLoop(_, _, _)
DurationLoop(epochs, sr, du) ==
    IF epochs = <<>> THEN du
    ELSE DurationLoop(Tail(epochs), sr, Quotient(len(Head(epochs)), sr))

\* Auto, data a dict
AutoDict(m, d, sr, sub) ==
    LET du == DurationLoop(d.epochs, sr, UnboundDuration)
    IN IF ~du.bound
       THEN Frame(m, UnboundSet, du, UnboundFeatures, <<>>,
                  Raised("UnboundLocalError", "duration"))
       ELSE ByDuration(m, d, sr, sub, du)

\* Series.value_counts(): the labels that occur with their counts, the most
\* frequent first.
RECURSIVE value_counts_from(_, _)
value_counts_from(counts, keys) ==
    IF keys = {} THEN <<>>
    ELSE LET k == CHOOSE x \in keys : \A y \in keys : counts[x] >= counts[y]
         IN <<[label |-> k, count |-> counts[k]]>>
                \o value_counts_from(counts, keys \ {k})
value_counts(col) ==
    value_counts_from(col.counts, {k \in DOMAIN col.counts : col.counts[k] > 0})

\* series[0]: by label when the index holds integers, by position otherwise
\* (the fallback of the pandas releases the code was written for). A miss is
\* a KeyError or an IndexError, both LookupError.
Item0(dtype, series) ==
    IF dtype = "int64"
    THEN IF \E i \in 1..Len(series) : series[i].label = 0
         THEN [found |-> TRUE,
               v |-> series[CHOOSE i \in 1..Len(series) : series[i].label = 0].count]
         ELSE [found |-> FALSE, v |-> 0]
    ELSE IF series = <<>> THEN [found |-> FALSE, v |-> 0]
    ELSE [found |-> TRUE, v |-> series[1].count]

\* Auto, data a DataFrame
AutoDataFrame(m, d, sr, sub) ==
    IF str_Label \in d.columns
    THEN LET epoch_len == Item0(d.Label.dtype, value_counts(d.Label))
         IN IF ~epoch_len.found
            THEN Frame(m, UnboundSet, UnboundDuration, UnboundFeatures, <<>>,
                       Raised("LookupError", "0"))
            ELSE ByDuration(m, d, sr, sub, Quotient(epoch_len.v, sr))
    ELSE ByDuration(m, d, sr, sub, Quotient(len(d), sr))

\* Auto
AutoBranch(m, d, sr, sub) ==
    IF isinstance_dict(d) THEN AutoDict(m, d, sr, sub)
    ELSE IF isinstance_DataFrame(d) THEN AutoDataFrame(m, d, sr, sub)
    ELSE Frame(m, UnboundSet, UnboundDuration, UnboundFeatures, <<>>,
               Raised("UnboundLocalError", "features"))

\* No branch taken: `return features` finds the local unassigned.
NoBranch(m, d, sr, sub) ==
    Frame(m, UnboundSet, UnboundDuration, UnboundFeatures, <<>>,
          Raised("UnboundLocalError", "features"))

EventRelatedMethods == {str_event_related, str_event, str_epoch}
IntervalRelatedMethods == {str_interval_related, str_interval, str_resting_state}
AutoMethods == {str_auto}

rsp_analyze(d, sr, meth, sub) ==
    LET m == lower(meth)
    IN IF m \in EventRelatedMethods THEN EventRelatedBranch(m, d, sr, sub)
       ELSE IF m \in IntervalRelatedMethods THEN IntervalRelatedBranch(m, d, sr, sub)
       ELSE IF m \in AutoMethods THEN AutoBranch(m, d, sr, sub)
       ELSE NoBranch(m, d, sr, sub)

----------------------------------------------------------------------------
(* Behaviour: one call of rsp_analyze, on any arguments. The function keeps *)
(* nothing between calls, so a behaviour is a single call from the state   *)
(* in which none has been made.                                            *)

NoData == [type |-> "none"]

Init ==
    /\ data = NoData
    /\ sampling_rate = 1
    /\ method_arg = <<>>
    /\ subepoch_rate = <<"None", "None">>
    /\ method = <<>>
    /\ colnames = UnboundSet
    /\ duration = UnboundDuration
    /\ features = UnboundFeatures
    /\ calls = <<>>
    /\ outcome = [kind |-> "none", exc |-> "none", detail |-> "none"]

\* No call has been made yet.
NotCalled == outcome.kind = "none"

Call(d, sr, meth, sub) ==
    LET f == rsp_analyze(d, sr, meth, sub)
    IN /\ data' = d
       /\ sampling_rate' = sr
       /\ method_arg' = meth
       /\ subepoch_rate' = sub
       /\ method' = f.method
       /\ colnames' = f.colnames
       /\ duration' = f.duration
       /\ features' = f.features
       /\ calls' = f.calls
       /\ outcome' = f.outcome

CallEventRelated ==
    /\ NotCalled
    /\ \E meth \in Methods :
        /\ lower(meth) \in EventRelatedMethods
        /\ \E d \in Inputs, sr \in SamplingRates, sub \in SubepochRates :
              Call(d, sr, meth, sub)

CallIntervalRelated ==
    /\ NotCalled
    /\ \E meth \in Methods :
        /\ lower(meth) \in IntervalRelatedMethods
        /\ \E d \in Inputs, sr \in SamplingRates, sub \in SubepochRates :
              Call(d, sr, meth, sub)

CallAuto ==
    /\ NotCalled
    /\ \E meth \in Methods :
        /\ lower(meth) \in AutoMethods
        /\ \E d \in Inputs, sr \in SamplingRates, sub \in SubepochRates :
              Call(d, sr, meth, sub)

CallOther ==
    /\ NotCalled
    /\ \E meth \in Methods :
        /\ lower(meth) \notin EventRelatedMethods \cup IntervalRelatedMethods \cup AutoMethods
        /\ \E d \in Inputs, sr \in SamplingRates, sub \in SubepochRates :
              Call(d, sr, meth, sub)

Next == CallEventRelated \/ CallIntervalRelated \/ CallAuto \/ CallOther

Spec == Init /\ [][Next]_vars

\* A call was made and has ended.
Ended == outcome.kind # "none"

----------------------------------------------------------------------------
(* Properties *)

\* What the caller observes of a call: the collaborator calls, how it ended
\* and the table returned.
Route(f) == <<f.calls, f.outcome, f.features>>
Observed == <<calls, outcome, features>>

IsAuto == Ended /\ method = str_auto
IsEventRelated == Ended /\ method \in EventRelatedMethods
IsIntervalRelated == Ended /\ method \in IntervalRelatedMethods

HasLabelColumn(t) == str_Label \in t.columns

\* The collaborator that a duration of n rows at sampling rate sr selects.
Selected(n, sr) ==
    IF n >= DurationThreshold * sr
    THEN rsp_intervalrelated(data, sampling_rate)
    ELSE rsp_eventrelated(data, subepoch_rate)

Last(sq) == sq[Len(sq)]

\* C1: in method "auto", a single table without a "Label" column has
\* duration (row count) / sampling_rate, and the call goes to
\* rsp_intervalrelated when that is 10 s or more (exactly 10 included) and
\* to rsp_eventrelated, with the sub-epoch window, when it is less.
C1_AutoUnlabeledTable ==
    (IsAuto /\ isinstance_DataFrame(data) /\ ~HasLabelColumn(data)) =>
        /\ duration = Quotient(data.nrows, sampling_rate)
        /\ calls = <<Selected(data.nrows, sampling_rate)>>
        /\ features = BoundFeatures(TableOf(calls[1], 1))
        /\ outcome = Returned

\* A table of exactly 10 s is analysed as an interval.
C1_Witness ==
    /\ IsAuto /\ isinstance_DataFrame(data) /\ ~HasLabelColumn(data)
    /\ data.nrows = DurationThreshold * sampling_rate
    /\ calls = <<rsp_intervalrelated(data, sampling_rate)>>

\* Every column name of the input: of every epoch table of a dict, else of
\* the single table.
AllColumns(d) ==
    IF isinstance_dict(d) THEN UNION {d.epochs[i].columns : i \in 1..Len(d.epochs)}
    ELSE d.columns

\* C2: in an event-related method the call fails with the invalid-input
\* error, calling no collaborator, exactly when no column name collected
\* from every epoch table (or from the single table) contains "Label", and
\* otherwise goes to rsp_eventrelated with the sub-epoch window.
C2_EventRelatedLabelCheck ==
    IsEventRelated =>
        IF \A c \in AllColumns(data) : ~Contains(str_Label, c)
        THEN outcome = Raised("ValueError", WrongInputMessage) /\ calls = <<>>
        ELSE /\ calls = <<rsp_eventrelated(data, subepoch_rate)>>
             /\ features = BoundFeatures(TableOf(calls[1], 1))
             /\ outcome = Returned

\* C3: a method that no branch recognises ends in an explicit invalid-input
\* error with no collaborator called, and no call ends with an undefined
\* result: a call that returns returns a table, and none ends at
\* `return features` with the local unassigned.
C3_UnsupportedMethodRejected ==
    Ended =>
        /\ (method \notin EventRelatedMethods \cup IntervalRelatedMethods \cup AutoMethods)
              => (outcome.kind = "raise" /\ outcome.exc = "ValueError" /\ calls = <<>>)
        /\ outcome = Returned => features.bound
        /\ outcome # Raised("UnboundLocalError", "features")

RECURSIVE TotalRows(_)
TotalRows(epochs) ==
    IF epochs = <<>> THEN 0 ELSE len(Head(epochs)) + TotalRows(Tail(epochs))

\* C4: in method "auto" the mean duration of the data decides: for a dict
\* of epochs the mean over all epochs, compared with 10 s.
C4_AutoByMeanDuration ==
    (IsAuto /\ isinstance_dict(data) /\ data.epochs # <<>>) =>
        calls = << IF TotalRows(data.epochs)
                        >= DurationThreshold * sampling_rate * Len(data.epochs)
                   THEN rsp_intervalrelated(data, sampling_rate)
                   ELSE rsp_eventrelated(data, subepoch_rate) >>

\* Two method strings that differ only in the case of their letters.
SameUpToCase(s, t) ==
    /\ Len(s) = Len(t)
    /\ \A i \in 1..Len(s) :
          \/ s[i] = t[i]
          \/ IsUpper(s[i]) /\ t[i] = s[i] + 32
          \/ IsLower(s[i]) /\ t[i] = s[i] - 32

\* C5: the route depends on the method only through its lowercased value:
\* a method string differing from the one passed only in letter case, and
\* every synonym of the same group, gives the same collaborator call with
\* the same arguments, or the same error.
C5_MethodCaseInsensitive ==
    Ended =>
        /\ \A m2 \in Methods :
              SameUpToCase(method_arg, m2) =>
                  Route(rsp_analyze(data, sampling_rate, m2, subepoch_rate)) = Observed
        /\ \A g \in {EventRelatedMethods, IntervalRelatedMethods} :
              \A m1 \in g, m2 \in g :
                  SameUpToCase(method_arg, m1) =>
                      Route(rsp_analyze(data, sampling_rate, m2, subepoch_rate)) = Observed

\* "EVENT" was passed and the call went to rsp_eventrelated.
C5_Witness ==
    /\ Ended
    /\ method_arg = upper(str_event)
    /\ calls = <<rsp_eventrelated(data, subepoch_rate)>>

\* C6: in an interval-related method, whatever the input's shape, no
\* "Label" check is made, rsp_intervalrelated is called once with the data
\* and the sampling rate, rsp_eventrelated is not called, and the table
\* returned is the one that call produced.
C6_IntervalRelatedDelegates ==
    IsIntervalRelated =>
        /\ calls = <<rsp_intervalrelated(data, sampling_rate)>>
        /\ features = BoundFeatures(TableOf(calls[1], 1))
        /\ outcome = Returned
        /\ ~colnames.bound

\* An interval-related call on a table none of whose columns names "Label".
C6_Witness ==
    /\ IsIntervalRelated
    /\ isinstance_DataFrame(data)
    /\ \A c \in data.columns : ~Contains(str_Label, c)
    /\ outcome = Returned

\* The number of rows that carry the most frequent label.
MostFrequentCount(col) ==
    CHOOSE n \in {col.counts[k] : k \in DOMAIN col.counts} :
        \A k \in DOMAIN col.counts : col.counts[k] <= n

\* C7: in method "auto", a single table with a "Label" column has duration
\* (rows of the most frequent label) / sampling_rate, whatever the labels,
\* integers included.
C7_AutoLabeledTable ==
    (IsAuto /\ isinstance_DataFrame(data) /\ HasLabelColumn(data) /\ data.nrows > 0) =>
        /\ duration = Quotient(MostFrequentCount(data.Label), sampling_rate)
        /\ calls = <<Selected(MostFrequentCount(data.Label), sampling_rate)>>

C9_AutoSkipsLabelCheck ==
    (IsAuto /\ duration.bound /\ ~AtLeastThreshold(duration)) =>
        /\ calls = <<rsp_eventrelated(data, subepoch_rate)>>
        /\ features = BoundFeatures(TableOf(calls[1], 1))
        /\ outcome = Returned
        /\ ~colnames.bound
        /\ (\A c \in AllColumns(data) : ~Contains(str_Label, c)) =>
              rsp_analyze(data, sampling_rate, str_event_related, subepoch_rate).outcome
                  = Raised("ValueError", WrongInputMessage)

\* "auto" sent to rsp_eventrelated an input without any "Label" column name.
C9_Witness ==
    /\ IsAuto
    /\ \A c \in AllColumns(data) : ~Contains(str_Label, c)
    /\ calls = <<rsp_eventrelated(data, subepoch_rate)>>
    /\ rsp_analyze(data, sampling_rate, str_event_related, subepoch_rate).outcome.exc
           = "ValueError"

\* C10: on an empty dict, method "auto" and the event-related methods end
\* in an error, with no collaborator called and no table returned: the loop
\* over the epochs assigned neither `duration` nor `colnames`. The error is
\* not the invalid-input error.
C10_EmptyDictFails ==
    (Ended /\ isinstance_dict(data) /\ data.epochs = <<>>
        /\ method \in EventRelatedMethods \cup AutoMethods) =>
        /\ outcome.kind = "raise"
        /\ outcome.exc = "UnboundLocalError"
        /\ outcome.exc # "ValueError"
        /\ outcome.detail = (IF method \in AutoMethods THEN "duration" ELSE "colnames")
        /\ calls = <<>>
        /\ ~features.bound
        /\ ~duration.bound
        /\ ~colnames.bound

\* An event-related call on an empty dict has ended in an error.
C10_Witness ==
    /\ IsEventRelated
    /\ isinstance_dict(data) /\ data.epochs = <<>>
    /\ outcome.kind = "raise"

====
